---- MODULE Spec2Model ----
(***************************************************************************)
(* HierarchicalBert (src/HierarchicalBert.py): a segment-wise encoder on   *)
(* top of a pre-trained token encoder.  One instance is constructed from   *)
(* an externally supplied base encoder and is then called any number of    *)
(* times.                                                                  *)
(*                                                                         *)
(* Tensors are records [shape, data]: data is the contiguous row-major     *)
(* storage, so view() keeps data and changes shape, and indexing is the    *)
(* usual stride arithmetic.  Indices are 0-based as in the source.         *)
(*                                                                         *)
(* The numeric sub-modules the class only calls (the base encoder,         *)
(* nn.LSTM, nn.TransformerEncoder, nn.Linear, sin, cos, max) are           *)
(* uninterpreted: an element they produce is a tagged tuple naming the     *)
(* producer and the output coordinates, and every call is logged with the  *)
(* arguments it was given.                                                 *)
(***************************************************************************)
EXTENDS Integers, Sequences, FiniteSets, TLC

VARIABLES
    encoder,    \* the base encoder handed to the constructor (its config)
    self,       \* the instance's attributes: a function name -> value
    ctor,       \* "new", "ok", or "AssertionError"
    last        \* the latest forward call: its arguments and what it did

vars == <<encoder, self, ctor, last>>

\* ---------------------------------------------------------------- bounds
MaxDocs == 2
MaxSegments == 2
MaxSegLen == 2
HiddenSize == 2

\* ------------------------------------------------------------- constants
supported_models == {"bert", "camembert", "xlm-roberta", "roberta"}

\* model families a caller may hand in: the supported ones and one that is not
ModelTypes == supported_models \cup {"gpt2"}

\* selector values a caller may hand in: the two the class knows and one it does not
SegEncoderTypes == {"lstm", "transformer", "gru"}

\* the optional parameters of forward besides the three tensors
AuxNames ==
    {"position_ids", "head_mask", "inputs_embeds", "labels",
     "output_attentions", "output_hidden_states", "return_dict", "adapter_names"}

\* ---------------------------------------------------------------- tensors
RECURSIVE Prod(_)
Prod(s) == IF s = <<>> THEN 1 ELSE Head(s) * Prod(Tail(s))

Numel(t) == Prod(t.shape)

NoneT == [shape |-> <<0>>, data |-> <<>>]

\* the indices of an axis of size n
Idx(n) == 0..(n - 1)

\* the tensor of shape (a, b) whose element (i, j) is f[i, j]
Mk2(a, b, f) ==
    [shape |-> <<a, b>>,
     data  |-> [n \in 1..(a * b) |-> f[(n - 1) \div b, (n - 1) % b]]]

\* the tensor of shape (a, b, c) whose element (i, j, k) is f[i, j, k]
Mk3(a, b, c, f) ==
    [shape |-> <<a, b, c>>,
     data  |-> [n \in 1..(a * b * c) |->
                  f[(n - 1) \div (b * c), ((n - 1) \div c) % b, (n - 1) % c]]]

At2(t, i, j) == t.data[i * t.shape[2] + j + 1]

At3(t, i, j, k) == t.data[(i * t.shape[2] + j) * t.shape[3] + k + 1]

At4(t, i, j, k, l) ==
    t.data[((i * t.shape[2] + j) * t.shape[3] + k) * t.shape[4] + l + 1]

\* Tensor.view(shape): legal iff the element count is unchanged
ViewOK(t, shape) == Numel(t) = Prod(shape)

View(t, shape) == [shape |-> shape, data |-> t.data]

\* ------------------------------------------------------ sinusoidal_init
Zero == <<"zero">>

One == <<"one">>

\* np.sin / np.cos of pos / 10000^(2i/dim); the angle is 0 only for pos = 0
SinOf(pos, i, dim) == IF pos = 0 THEN Zero ELSE <<"sin", pos, i, dim>>

CosOf(pos, i, dim) == IF pos = 0 THEN One ELSE <<"cos", pos, i, dim>>

\* the table without the reserved row: row 0 is sin(0), cos(0), sin(0), ...
sinusoidal_init_no_padding_row(num_embeddings, embedding_dim) ==
    Mk2(num_embeddings, embedding_dim,
        [pos \in Idx(num_embeddings), i \in Idx(embedding_dim) |->
            IF i % 2 = 0 THEN SinOf(pos, i, embedding_dim)
            ELSE CosOf(pos, i, embedding_dim)])

sinusoidal_init(num_embeddings, embedding_dim) ==
    Mk2(num_embeddings, embedding_dim,
        [pos \in Idx(num_embeddings), i \in Idx(embedding_dim) |->
            IF pos = 0 THEN Zero
            ELSE IF i % 2 = 0 THEN SinOf(pos, i, embedding_dim)
            ELSE CosOf(pos, i, embedding_dim)])

\* ------------------------------------------------------------ __init__
Encoders ==
    {[model_type |-> m, hidden_size |-> HiddenSize] : m \in ModelTypes}

LstmModule(h) ==
    [kind |-> "LSTM", input_size |-> h, hidden_size |-> h,
     bidirectional |-> TRUE, num_layers |-> 1, batch_first |-> TRUE]

LinearModule(h) == [kind |-> "Linear", in_features |-> 2 * h, out_features |-> h]

TransformerEncoderModule(h) ==
    [kind |-> "TransformerEncoder", d_model |-> h, num_encoder_layers |-> 2,
     batch_first |-> TRUE]

ConfigAttrs(enc, max_segments, max_segment_length, seg_encoder_type) ==
    ("encoder" :> enc) @@ ("hidden_size" :> enc.hidden_size)
    @@ ("max_segments" :> max_segments)
    @@ ("max_segment_length" :> max_segment_length)
    @@ ("seg_encoder_type" :> seg_encoder_type)

LstmAttrs(enc) ==
    ("seg_encoder" :> LstmModule(enc.hidden_size))
    @@ ("down_project" :> LinearModule(enc.hidden_size))

TransformerAttrs(enc, max_segments) ==
    ("seg_pos_embeddings" :> sinusoidal_init(max_segments + 1, enc.hidden_size))
    @@ ("seg_encoder" :> TransformerEncoderModule(enc.hidden_size))

\* the constructor with the family check dropped
HierarchicalBert_init_unchecked(enc, max_segments, max_segment_length, seg_encoder_type) ==
    [raised |-> FALSE,
     attrs  |-> ConfigAttrs(enc, max_segments, max_segment_length, seg_encoder_type)
                @@ (IF seg_encoder_type = "lstm" THEN LstmAttrs(enc) ELSE <<>>)
                @@ (IF seg_encoder_type = "transformer"
                    THEN TransformerAttrs(enc, max_segments) ELSE <<>>)]

\* the constructor with the second branch written as an else
HierarchicalBert_init_else(enc, max_segments, max_segment_length, seg_encoder_type) ==
    IF enc.model_type \notin supported_models
    THEN [raised |-> TRUE, attrs |-> <<>>]
    ELSE [raised |-> FALSE,
          attrs  |-> ConfigAttrs(enc, max_segments, max_segment_length, seg_encoder_type)
                     @@ (IF seg_encoder_type = "lstm" THEN LstmAttrs(enc)
            ELSE TransformerAttrs(enc, max_segments))]

\* what __init__ leaves on the instance, and whether its assert raised
HierarchicalBert_init(enc, max_segments, max_segment_length, seg_encoder_type) ==
    IF enc.model_type \notin supported_models
    THEN [raised |-> TRUE, attrs |-> <<>>]
    ELSE [raised |-> FALSE,
          attrs  |-> ConfigAttrs(enc, max_segments, max_segment_length, seg_encoder_type)
                     @@ (IF seg_encoder_type = "lstm" THEN LstmAttrs(enc) ELSE <<>>)
                     @@ (IF seg_encoder_type = "transformer"
                         THEN TransformerAttrs(enc, max_segments) ELSE <<>>)]

\* ------------------------------------------------------------- forward
\* a flattening that merges the axes segment-major (transpose(0, 1) first)
FlattenSegmentMajor(t) ==
    [shape |-> <<t.shape[1] * t.shape[2], t.shape[3]>>,
     data  |-> [n \in 1..Numel(t) |->
                  At3(t, ((n - 1) \div t.shape[3]) % t.shape[1],
                         ((n - 1) \div t.shape[3]) \div t.shape[1],
                         (n - 1) % t.shape[3])]]

\* input_ids.contiguous().view(-1, input_ids.size(-1))
Flatten(t) ==
    View(t, <<Numel(t) \div t.shape[Len(t.shape)], t.shape[Len(t.shape)]>>)

AuxValue(aux, name) == IF name \in aux THEN "given" ELSE "None"

\* the keyword arguments with position_ids handed on as well
EncoderKwargsWithPositions(ids2, mask2, types2, aux) ==
    [input_ids |-> ids2, attention_mask |-> mask2, token_type_ids |-> types2,
     position_ids |-> AuxValue(aux, "position_ids")]

\* the keyword arguments of the self.encoder(...) call
EncoderKwargs(ids2, mask2, types2, aux) ==
    [input_ids |-> ids2, attention_mask |-> mask2, token_type_ids |-> types2]

\* self.encoder(...)[0]: hidden state h of token t of flat row r
BaseEncoder(kwargs, hidden) ==
    Mk3(kwargs.input_ids.shape[1], kwargs.input_ids.shape[2], hidden,
        [r \in Idx(kwargs.input_ids.shape[1]), t \in Idx(kwargs.input_ids.shape[2]), h \in Idx(hidden) |->
            <<"enc", r, t, h>>])

\* encoder_outputs[:, :, 0]
GatherCLS(t4) ==
    Mk3(t4.shape[1], t4.shape[2], t4.shape[4],
        [d \in Idx(t4.shape[1]), s \in Idx(t4.shape[2]), h \in Idx(t4.shape[4]) |->
            At4(t4, d, s, 0, h)])

\* nn.LSTM(bidirectional, batch_first)(x)[0]: at each timestep the forward
\* direction's hidden state, then the backward direction's
Lstm(x) ==
    Mk3(x.shape[1], x.shape[2], 2 * x.shape[3],
        [d \in Idx(x.shape[1]), t \in Idx(x.shape[2]), k \in Idx(2 * x.shape[3]) |->
            IF k < x.shape[3] THEN <<"lstm_fwd", d, t, k>>
            ELSE <<"lstm_bwd", d, t, k - x.shape[3]>>])

\* both directions read at the last timestep
LastStatesAtEnd(r) ==
    Mk2(r.shape[1], 2 * r.shape[4],
        [d \in Idx(r.shape[1]), k \in Idx(2 * r.shape[4]) |->
            IF k < r.shape[4] THEN At4(r, d, r.shape[2] - 1, 0, k)
            ELSE At4(r, d, r.shape[2] - 1, 1, k - r.shape[4])])

\* torch.cat((reshaped_lstms[:, -1, 0, :], reshaped_lstms[:, 0, 1, :]), -1)
LastStates(r) ==
    Mk2(r.shape[1], 2 * r.shape[4],
        [d \in Idx(r.shape[1]), k \in Idx(2 * r.shape[4]) |->
            IF k < r.shape[4] THEN At4(r, d, r.shape[2] - 1, 0, k)
            ELSE At4(r, d, 0, 1, k - r.shape[4])])

\* self.down_project(x)
DownProject(x, module) ==
    Mk2(x.shape[1], module.out_features, [d \in Idx(x.shape[1]), h \in Idx(module.out_features) |->
            <<"proj", d, h>>])

RECURSIVE RowSumFrom(_, _, _, _)
RowSumFrom(ids, d, s, t) ==
    IF t = ids.shape[3] THEN 0 ELSE At3(ids, d, s, t) + RowSumFrom(ids, d, s, t + 1)

\* (torch.sum(input_ids, 2) != 0).to(input_ids.dtype)
SegMask(ids) ==
    Mk2(ids.shape[1], ids.shape[2],
        [d \in Idx(ids.shape[1]), s \in Idx(ids.shape[2]) |->
            IF RowSumFrom(ids, d, s, 0) # 0 THEN 1 ELSE 0])

MaxOf(a, b) == IF a >= b THEN a ELSE b

\* shapes (n,) and (D, S) broadcast iff the trailing sizes agree or one is 1
BroadcastOK(n, seg_mask) == n = seg_mask.shape[2] \/ n = 1 \/ seg_mask.shape[2] = 1

\* positions counted from 0
SegPositionsFromZero(max_segments, seg_mask) ==
    Mk2(seg_mask.shape[1], MaxOf(max_segments, seg_mask.shape[2]),
        [d \in Idx(seg_mask.shape[1]), j \in Idx(MaxOf(max_segments, seg_mask.shape[2])) |->
            (IF max_segments = 1 THEN 0 ELSE j)
                      * At2(seg_mask, d, IF seg_mask.shape[2] = 1 THEN 0 ELSE j)])

\* torch.arange(1, self.max_segments + 1) * seg_mask
SegPositions(max_segments, seg_mask) ==
    Mk2(seg_mask.shape[1], MaxOf(max_segments, seg_mask.shape[2]),
        [d \in Idx(seg_mask.shape[1]), j \in Idx(MaxOf(max_segments, seg_mask.shape[2])) |->
            (IF max_segments = 1 THEN 1 ELSE j + 1)
                      * At2(seg_mask, d, IF seg_mask.shape[2] = 1 THEN 0 ELSE j)])

\* self.seg_pos_embeddings(seg_positions)
Embedding(table, idx) ==
    Mk3(idx.shape[1], idx.shape[2], table.shape[2],
        [d \in Idx(idx.shape[1]), j \in Idx(idx.shape[2]), h \in Idx(table.shape[2]) |->
            At2(table, At2(idx, d, j), h)])

AddVal(x, y) == IF y = Zero THEN x ELSE <<"add", x, y>>

\* x += y is legal iff y broadcasts to the shape of x
IAddOK(x, y) ==
    /\ x.shape[1] = y.shape[1]
    /\ x.shape[3] = y.shape[3]
    /\ y.shape[2] \in {x.shape[2], 1}

IAdd(x, y) ==
    Mk3(x.shape[1], x.shape[2], x.shape[3],
        [d \in Idx(x.shape[1]), s \in Idx(x.shape[2]), h \in Idx(x.shape[3]) |->
            AddVal(At3(x, d, s, h), At3(y, d, IF y.shape[2] = 1 THEN 0 ELSE s, h))])

\* self.seg_encoder(encoder_outputs) of the attention variant: output h at
\* position s of document d, attending to the whole sequence it was given
TransformerEncoder(x) ==
    Mk3(x.shape[1], x.shape[2], x.shape[3], [d \in Idx(x.shape[1]), s \in Idx(x.shape[2]), h \in Idx(x.shape[3]) |->
            <<"attn", d, s, h>>])

\* a maximum that leaves the last position out
MaxOverLeadingSegments(x) ==
    Mk2(x.shape[1], x.shape[3],
        [d \in Idx(x.shape[1]), h \in Idx(x.shape[3]) |->
            <<"max", [s \in 1..(x.shape[2] - 1) |-> At3(x, d, s - 1, h)]>>])

\* a maximum taken along the hidden axis: torch.max(seg_encoder_outputs, 2)
MaxOverHidden(x) ==
    Mk2(x.shape[1], x.shape[2],
        [d \in Idx(x.shape[1]), s \in Idx(x.shape[2]) |->
            <<"max", [h \in 1..x.shape[3] |-> At3(x, d, s, h - 1)]>>])

\* torch.max(seg_encoder_outputs, 1)[0]
MaxOverSegments(x) ==
    Mk2(x.shape[1], x.shape[3],
        [d \in Idx(x.shape[1]), h \in Idx(x.shape[3]) |->
            <<"max", [s \in 1..x.shape[2] |-> At3(x, d, s - 1, h)]>>])

\* what one forward call did; fields a call never reached keep these values
Run0 ==
    [outcome |-> "none", error |-> "none", enc_calls |-> <<>>,
     summaries |-> NoneT, seg_mask |-> NoneT, seg_positions |-> NoneT,
     pos_emb |-> NoneT, seg_in |-> NoneT, seg_calls |-> <<>>, seg_out |-> NoneT,
     proj_in |-> NoneT, outputs |-> NoneT]

Raise(run, what) == [run EXCEPT !.outcome = "error", !.error = what]

Return(run, outputs) == [run EXCEPT !.outcome = "ok", !.outputs = outputs]

LstmBranch(obj, D, run) ==
    LET lstms     == Lstm(run.summaries)
        called    == [run EXCEPT !.seg_calls = <<[input |-> run.summaries]>>,
                                 !.seg_out = lstms]
        reshaped  == View(lstms, <<D, obj.max_segments, 2, obj.hidden_size>>)
        states    == LastStates(reshaped)
    IN  Return([called EXCEPT !.proj_in = states],
               DownProject(states, obj.down_project))

TransformerBranch(obj, input_ids, run) ==
    LET seg_mask == SegMask(input_ids)
        masked   == [run EXCEPT !.seg_mask = seg_mask]
    IN  IF ~BroadcastOK(obj.max_segments, seg_mask)
        THEN Raise(masked, "broadcast")
        ELSE
        LET seg_positions == SegPositions(obj.max_segments, seg_mask)
            pos_emb       == Embedding(obj.seg_pos_embeddings, seg_positions)
            looked        == [masked EXCEPT !.seg_positions = seg_positions,
                                            !.pos_emb = pos_emb]
        IN  IF ~IAddOK(run.summaries, pos_emb)
            THEN Raise(looked, "inplace_add")
            ELSE
            LET seg_in  == IAdd(run.summaries, pos_emb)
                seg_out == TransformerEncoder(seg_in)
            IN  Return([looked EXCEPT
                           !.seg_in = seg_in,
                           !.seg_calls = <<[src |-> seg_in, mask |-> "None",
                                            src_key_padding_mask |-> "None"]>>,
                           !.seg_out = seg_out],
                       MaxOverSegments(seg_out))

HierarchicalBert_forward(obj, input_ids, attention_mask, token_type_ids, aux) ==
    LET D       == input_ids.shape[1]
        kwargs  == EncoderKwargs(Flatten(input_ids), Flatten(attention_mask),
                                 Flatten(token_type_ids), aux)
        enc_out == BaseEncoder(kwargs, obj.encoder.hidden_size)
        encoded == [Run0 EXCEPT !.enc_calls = <<kwargs>>]
        shape4  == <<D, obj.max_segments, obj.max_segment_length, obj.hidden_size>>
    IN  IF ~ViewOK(enc_out, shape4)
        THEN Raise(encoded, "view")
        ELSE
        LET gathered == [encoded EXCEPT !.summaries = GatherCLS(View(enc_out, shape4))]
        IN  IF obj.seg_encoder_type = "lstm"
            THEN LstmBranch(obj, D, gathered)
            ELSE IF obj.seg_encoder_type = "transformer"
            THEN TransformerBranch(obj, input_ids, gathered)
            ELSE Raise(gathered, "UnboundLocalError")

\* ------------------------------------------------------------- callers
\* token ids: a padded segment is all 0, any other token carries its own id
MkIds(D, S, T, pads) ==
    Mk3(D, S, T, [d \in Idx(D), s \in Idx(S), t \in Idx(T) |->
            IF d = D - 1 /\ s \in pads THEN 0
            ELSE 1 + (d * S + s) * T + t])

MkMask(ids) ==
    [shape |-> ids.shape, data |-> [n \in 1..Numel(ids) |-> IF ids.data[n] = 0 THEN 0 ELSE 1]]

MkTypes(D, S, T) == Mk3(D, S, T, [d \in Idx(D), s \in Idx(S), t \in Idx(T) |->
            (d + s + t) % 2])

AuxChoices == {{}} \cup {{n} : n \in AuxNames}

NoCall ==
    [called |-> FALSE, input_ids |-> NoneT, attention_mask |-> NoneT,
     token_type_ids |-> NoneT, aux |-> {}, run |-> Run0]

Call(obj, input_ids, attention_mask, token_type_ids, aux) ==
    [called |-> TRUE, input_ids |-> input_ids, attention_mask |-> attention_mask,
     token_type_ids |-> token_type_ids, aux |-> aux,
     run |-> HierarchicalBert_forward(obj, input_ids, attention_mask, token_type_ids, aux)]

\* -------------------------------------------------------------- actions
Init ==
    /\ encoder \in Encoders
    /\ self = <<>>
    /\ ctor = "new"
    /\ last = NoCall

\* HierarchicalBert(encoder, max_segments, max_segment_length, seg_encoder_type)
Construct ==
    /\ ctor = "new"
    /\ \E ms \in 1..MaxSegments, ml \in 1..MaxSegLen, t \in SegEncoderTypes :
          LET r == HierarchicalBert_init(encoder, ms, ml, t)
          IN  /\ self' = r.attrs
              /\ ctor' = IF r.raised THEN "AssertionError" ELSE "ok"
    /\ UNCHANGED <<encoder, last>>

\* model(input_ids=..., attention_mask=..., token_type_ids=...)
Forward ==
    /\ ctor = "ok"
    /\ \E D \in {1, MaxDocs}, S \in 1..MaxSegments, T \in 1..MaxSegLen :
       \E pads \in SUBSET (0..(S - 1)) :
          last' = Call(self, MkIds(D, S, T, pads), MkMask(MkIds(D, S, T, pads)),
                       MkTypes(D, S, T), {})
    /\ UNCHANGED <<encoder, self, ctor>>

\* the same call with one of the optional parameters given as well
ForwardWithOptional ==
    /\ ctor = "ok"
    /\ \E S \in 1..MaxSegments, aux \in AuxChoices \ {{}} :
          last' = Call(self, MkIds(1, S, MaxSegLen, {}),
                       MkMask(MkIds(1, S, MaxSegLen, {})),
                       MkTypes(1, S, MaxSegLen), aux)
    /\ UNCHANGED <<encoder, self, ctor>>

Next == Construct \/ Forward \/ ForwardWithOptional

Spec == Init /\ [][Next]_vars

\* ---------------------------------------------------------- properties
\* the shape of the latest call's input and the instance's configuration
Docs == last.input_ids.shape[1]

Segs == last.input_ids.shape[2]

Toks == last.input_ids.shape[3]

Constructed == ctor = "ok"

Variant(t) == Constructed /\ self.seg_encoder_type = t

ShapesMatch ==
    /\ Constructed
    /\ last.called
    /\ Segs = self.max_segments
    /\ Toks = self.max_segment_length

Returned == last.called /\ last.run.outcome = "ok"

Families == {"bert", "camembert", "xlm-roberta", "roberta"}

\* C1: a base encoder whose model family is not bert, camembert, xlm-roberta
\* or roberta makes construction raise with no attribute attached to the
\* instance and no forward call made; the four supported families construct.
C1_UnsupportedFamilyRejected ==
    /\ (ctor # "new" /\ encoder.model_type \notin Families)
          => (ctor = "AssertionError" /\ DOMAIN self = {} /\ ~last.called)
    /\ (ctor # "new" /\ encoder.model_type \in Families) => ctor = "ok"
    /\ last.called => encoder.model_type \in Families

C1_Witness ==
    ctor = "AssertionError" /\ encoder.model_type = "gpt2" /\ DOMAIN self = {}

\* C2: every forward call whose segment count differs from max_segments or
\* whose token count differs from max_segment_length ends in the error of
\* the view step, whatever the variant.
C2_MismatchFailsAtView ==
    (Constructed /\ last.called
       /\ (Segs # self.max_segments \/ Toks # self.max_segment_length))
    => (last.run.outcome = "error" /\ last.run.error = "view")

\* C3: a call whose input has the configured shape, on either variant,
\* returns a pooled output of shape (documents, hidden_size).
C3_OutputShape ==
    (ShapesMatch /\ self.seg_encoder_type \in {"lstm", "transformer"})
    => /\ last.run.outcome = "ok"
       /\ last.run.outputs.shape = <<Docs, encoder.hidden_size>>
       /\ Len(last.run.outputs.data) = Docs * encoder.hidden_size

C3_Witness ==
    /\ ShapesMatch
    /\ Variant("transformer")
    /\ Docs = 2 /\ Segs = 2 /\ Toks = 2
    /\ Returned

PaddedSegment(d, s) == \A t \in 0..(Toks - 1) : At3(last.input_ids, d, s, t) = 0

\* the last k segments of document d are all zero and the others are not
TrailingPadding(d, k) ==
    \A s \in 0..(Segs - 1) : PaddedSegment(d, s) <=> s >= Segs - k

\* C4: in the attention variant the position index of segment s (counted
\* from 1) of document d is s when the segment's token ids do not sum to 0
\* and 0 otherwise; k trailing padded segments give 1..(segments-k) then k
\* zeros; a padded segment gets row 0 of the table, the zero vector, added.
C4_SegmentPositions ==
    (ShapesMatch /\ Variant("transformer"))
    => /\ last.run.seg_positions.shape = <<Docs, self.max_segments>>
       /\ \A d \in 0..(Docs - 1), s \in 1..self.max_segments :
             /\ At2(last.run.seg_positions, d, s - 1)
                   = (IF RowSumFrom(last.input_ids, d, s - 1, 0) # 0 THEN s ELSE 0)
             /\ PaddedSegment(d, s - 1)
                   => \A h \in 0..(self.hidden_size - 1) :
                         /\ At3(last.run.pos_emb, d, s - 1, h)
                               = At2(self.seg_pos_embeddings, 0, h)
                         /\ At3(last.run.pos_emb, d, s - 1, h) = Zero
                         /\ At3(last.run.seg_in, d, s - 1, h)
                               = At3(last.run.summaries, d, s - 1, h)
       /\ \A d \in 0..(Docs - 1), k \in 0..Segs :
             TrailingPadding(d, k)
                => \A s \in 1..Segs :
                      At2(last.run.seg_positions, d, s - 1)
                         = (IF s <= Segs - k THEN s ELSE 0)

C4_Witness ==
    /\ ShapesMatch
    /\ Variant("transformer")
    /\ Docs = 2
    /\ Segs >= 2
    /\ TrailingPadding(1, 1)
    /\ At2(last.run.seg_positions, 1, Segs - 2) = Segs - 1
    /\ At2(last.run.seg_positions, 1, Segs - 1) = 0

\* C5: segment s of document d is flat row d * segments + s of all three
\* tensors handed to the base encoder, and the summary at (d, s) is the
\* hidden state of token 0 of that flat row.
C5_FlattenPreservesSegments ==
    last.called
    => /\ Len(last.run.enc_calls) = 1
       /\ \A d \in 0..(Docs - 1), s \in 0..(Segs - 1), t \in 0..(Toks - 1) :
             /\ At2(last.run.enc_calls[1].input_ids, d * Segs + s, t)
                   = At3(last.input_ids, d, s, t)
             /\ At2(last.run.enc_calls[1].attention_mask, d * Segs + s, t)
                   = At3(last.attention_mask, d, s, t)
             /\ At2(last.run.enc_calls[1].token_type_ids, d * Segs + s, t)
                   = At3(last.token_type_ids, d, s, t)
       /\ ShapesMatch
             => /\ last.run.summaries.shape = <<Docs, Segs, self.hidden_size>>
                /\ \A d \in 0..(Docs - 1), s \in 0..(Segs - 1),
                      h \in 0..(self.hidden_size - 1) :
                      At3(last.run.summaries, d, s, h) = <<"enc", d * Segs + s, 0, h>>

C5_Witness ==
    /\ ShapesMatch
    /\ Docs = 2 /\ Segs = 2 /\ Toks = 2
    /\ At3(last.run.summaries, 1, 1, 0) = <<"enc", 3, 0, 0>>
    /\ At2(last.run.enc_calls[1].input_ids, 3, 1) = At3(last.input_ids, 1, 1, 1)

TableInv ==
    (Constructed /\ "seg_pos_embeddings" \in DOMAIN self)
    => /\ self.seg_pos_embeddings.shape = <<self.max_segments + 1, self.hidden_size>>
       /\ Len(self.seg_pos_embeddings.data) = (self.max_segments + 1) * self.hidden_size
       /\ \A h \in 0..(self.hidden_size - 1) : At2(self.seg_pos_embeddings, 0, h) = Zero

\* C6: the position table has max_segments + 1 rows and a zero row 0 in every
\* state, and once the instance is constructed no step (no forward call)
\* changes the table or any configuration field.
C6_TableFixed ==
    /\ []TableInv
    /\ [][Constructed => self' = self]_vars

C6_Witness ==
    /\ Variant("transformer")
    /\ "seg_pos_embeddings" \in DOMAIN self
    /\ self.hidden_size >= 2
    /\ Returned

\* C7: in the recurrent variant the down-projection is given, per document,
\* the forward direction's state at the last segment followed by the backward
\* direction's state at the first segment, and nothing else.
C7_LstmLastStates ==
    (Variant("lstm") /\ Returned)
    => /\ last.run.seg_calls = <<[input |-> last.run.summaries]>>
       /\ last.run.proj_in.shape = <<Docs, 2 * self.hidden_size>>
       /\ Len(last.run.proj_in.data) = Docs * 2 * self.hidden_size
       /\ \A d \in 0..(Docs - 1), j \in 0..(self.hidden_size - 1) :
             /\ At2(last.run.proj_in, d, j)
                   = <<"lstm_fwd", d, self.max_segments - 1, j>>
             /\ At2(last.run.proj_in, d, self.hidden_size + j)
                   = <<"lstm_bwd", d, 0, j>>
             /\ At2(last.run.outputs, d, j) = <<"proj", d, j>>

C7_Witness ==
    /\ Variant("lstm")
    /\ Returned
    /\ ShapesMatch
    /\ self.max_segments = 2
    /\ self.hidden_size = 2
    /\ Docs = 2

\* C8: in the attention variant the output is the element-wise maximum over
\* all max_segments positions of the segment encoder's output; the segment
\* encoder is given every position and no mask, so padded segments take part.
C8_MaxOverAllSegments ==
    (Variant("transformer") /\ Returned)
    => /\ last.run.seg_in.shape = <<Docs, self.max_segments, self.hidden_size>>
       /\ last.run.seg_calls
             = <<[src |-> last.run.seg_in, mask |-> "None",
                  src_key_padding_mask |-> "None"]>>
       /\ \A d \in 0..(Docs - 1), h \in 0..(self.hidden_size - 1) :
             /\ At2(last.run.outputs, d, h)[1] = "max"
             /\ Len(At2(last.run.outputs, d, h)[2]) = self.max_segments
             /\ \A s \in 1..self.max_segments :
                   At2(last.run.outputs, d, h)[2][s] = <<"attn", d, s - 1, h>>

C8_Witness ==
    /\ Variant("transformer")
    /\ Returned
    /\ ShapesMatch
    /\ Segs = 2
    /\ At2(last.run.seg_mask, Docs - 1, 1) = 0
    /\ At2(last.run.outputs, Docs - 1, 0)[2][2] = <<"attn", Docs - 1, 1, 0>>

OneEncoderCall ==
    last.called
    => /\ Len(last.run.enc_calls) = 1
       /\ DOMAIN last.run.enc_calls[1] = {"input_ids", "attention_mask", "token_type_ids"}
       /\ last.run.enc_calls[1].input_ids.shape = <<Docs * Segs, Toks>>
       /\ last.run.enc_calls[1].input_ids.data = last.input_ids.data
       /\ last.run.enc_calls[1].attention_mask.data = last.attention_mask.data
       /\ last.run.enc_calls[1].token_type_ids.data = last.token_type_ids.data

SameTensorsAsBefore ==
    /\ last.called
    /\ last'.called
    /\ last'.input_ids = last.input_ids
    /\ last'.attention_mask = last.attention_mask
    /\ last'.token_type_ids = last.token_type_ids

\* C9: every forward call calls the base encoder once, on the whole flattened
\* batch, with token ids, attention mask and token type ids only; a call that
\* repeats the previous call's three tensors, whatever optional parameters
\* either was given, makes the same encoder call and does the same thing.
C9_OptionalParametersIgnored ==
    /\ []OneEncoderCall
    /\ [][SameTensorsAsBefore => last'.run = last.run]_vars

C9_Witness ==
    /\ Returned
    /\ last.aux = {"position_ids"}
    /\ Len(last.run.enc_calls) = 1

\* C10: the selector is not checked at construction: with a value that is
\* neither lstm nor transformer the instance is constructed without a segment
\* encoder, and each forward call on it calls the base encoder and then
\* raises; only the two supported selectors ever return an output.
C10_UnknownSelector ==
    /\ ctor = "AssertionError" => encoder.model_type \notin Families
    /\ (Constructed /\ self.seg_encoder_type \notin {"lstm", "transformer"})
          => /\ DOMAIN self \cap {"seg_encoder", "down_project", "seg_pos_embeddings"} = {}
             /\ last.called
                   => /\ last.run.outcome = "error"
                      /\ Len(last.run.enc_calls) = 1
                      /\ last.run.outputs = NoneT
    /\ Returned => self.seg_encoder_type \in {"lstm", "transformer"}

C10_Witness ==
    /\ Variant("gru")
    /\ last.called
    /\ ShapesMatch
    /\ last.run.error = "UnboundLocalError"
    /\ Len(last.run.enc_calls) = 1

====
